---- MODULE Spec2Model ----
(***************************************************************************)
(* Model of the spreadsheet-backed authentication backend                  *)
(* (src/gas-backend/Code.gs): the Users and Sessions sheets, the clock,    *)
(* the UUID source, and the request handlers reached through doPost.       *)
(*                                                                         *)
(* A sheet is the sequence of its rows, header row first, so that TLA+     *)
(* index r is the sheet's 1-based row number r and the code's data[i]      *)
(* (0-based, from getDataRange().getValues()) is row i + 1.  A sheet that  *)
(* does not exist (getSheetByName returns null) is NoSheet.                *)
(* Time is in milliseconds since the epoch.                                *)
(***************************************************************************)
EXTENDS Integers, Sequences, FiniteSets, TLC

VARIABLES
    users,      \* the Users sheet
    sessions,   \* the Sessions sheet
    now,        \* the clock read by new Date()
    nextUuid,   \* number of the next value Utilities.getUuid() returns
    issued,     \* history: every session ever stored, as [token, createdAt, user]
    removed,    \* history: the session rows the last step deleted
    swept,      \* history: the clock value of the last step's cleanup sweep
    req,        \* the last request body handled by doPost
    resp,       \* the response envelope of the last request
    fault,      \* history: the storage call that threw during the last step
    conc,       \* the requests in flight when requests overlap
    ui          \* the chapter editor component

vars == <<users, sessions, now, nextUuid, issued, removed, swept, req, resp, fault, conc, ui>>

----------------------------------------------------------------------------
(* Bounds of the model *)

MaxUuid == 6
MaxDays == 1

\* The storage calls that throw in one run.
MaxFaults == 1

\* The save delays pending at once, and the activities of the chapter.
MaxTimers == 2
MaxActivities == 3

----------------------------------------------------------------------------
(* Configuration *)

SESSION_TIMEOUT == 24 * 60 * 60 * 1000

MsPerDay == 24 * 60 * 60 * 1000

NoSheet == << >>

Null == "null"

Undefined == "undefined"

NoSweep == 0 - 1

UsersHeader == <<"Username", "Password", "Email", "Role", "User ID", "Chapter ID">>

SessionsHeader == <<"Session Token", "User Data", "Created At", "Expires At">>

----------------------------------------------------------------------------
(* Library functions used by the code *)

\* Utilities.getUuid(): the n-th value drawn; distinct draws are distinct.
getUuid(n) == "uuid" \o ToString(n)

\* Date.prototype.toISOString(): the calendar form of an instant, reduced to
\* its day number and the millisecond within that day.
toISOString(t) == [day |-> t \div MsPerDay, ms |-> t % MsPerDay]

\* new Date(isoString): the instant a calendar form denotes.
DateParse(s) == s.day * MsPerDay + s.ms

\* JSON.stringify(user): the members in insertion order, as key/value pairs.
JSONstringify(user) ==
    << <<"id", user.id>>, <<"username", user.username>>, <<"email", user.email>>,
       <<"role", user.role>>, <<"chapterId", user.chapterId>> >>

\* JSON.parse(text): the object with the members the text lists.
JSONparse(text) ==
    [k \in {text[j][1] : j \in 1..Len(text)} |->
        text[CHOOSE j \in 1..Len(text) :
                /\ text[j][1] = k
                /\ \A m \in (j + 1)..Len(text) : text[m][1] # k][2]]

\* Sheet.deleteRow(r): rows below r move up by one.
deleteRow(sheet, r) == SubSeq(sheet, 1, r - 1) \o SubSeq(sheet, r + 1, Len(sheet))

\* Sheet.appendRow(row)
appendRow(sheet, row) == IF sheet = << <<"">> >> THEN <<row>> ELSE Append(sheet, row)

NoData == [k \in {} |-> ""]

\* Faulty variant of createResponse: data replaces the response instead of
\* being assigned into it.
createResponseReplaced(success, message, data) ==
    IF data # NoData THEN data ELSE [success |-> success, message |-> message]

\* createResponse: success and message, then Object.assign of data if any.
createResponse(success, message, data) ==
    data @@ [success |-> success, message |-> message]

----------------------------------------------------------------------------
(* Session management *)

NullSession == [k \in {} |-> ""]

\* The code's loop "for (i = 1; i < data.length; i++) if (data[i][0] === token)":
\* the sheet row of the first match, 0 when the loop ends without one.
firstTokenRow(data, sessionToken) ==
    IF \E r \in 2..Len(data) : data[r][1] = sessionToken
    THEN CHOOSE r \in 2..Len(data) :
            /\ data[r][1] = sessionToken
            /\ \A q \in 2..(r - 1) : data[q][1] # sessionToken
    ELSE 0

getSession(sheet, sessionToken) ==
    IF sheet = NoSheet THEN NullSession
    ELSE LET r == firstTokenRow(sheet, sessionToken)
         IN IF r = 0 THEN NullSession
            ELSE [sessionToken |-> sheet[r][1], userData |-> sheet[r][2],
                  createdAt |-> sheet[r][3], expiresAt |-> sheet[r][4]]

\* Faulty variant of isSessionExpired: a session counts as expired at the
\* instant of its expiry.
isSessionExpiredInclusive(session, clock) == DateParse(session.expiresAt) <= clock

\* Faulty variant of isSessionExpired: the comparison is reversed.
isSessionExpiredReversed(session, clock) == DateParse(session.expiresAt) > clock

isSessionExpired(session, clock) == DateParse(session.expiresAt) < clock

\* Faulty variant of cleanupLoop: the Created At column is read as the expiry.
RECURSIVE cleanupLoopCreatedAt(_, _, _, _)
cleanupLoopCreatedAt(sheet, data, i, clock) ==
    IF i < 1 THEN sheet
    ELSE cleanupLoopCreatedAt(IF DateParse(data[i + 1][3]) < clock
                              THEN deleteRow(sheet, i + 1) ELSE sheet,
                              data, i - 1, clock)

\* Faulty variant of cleanupLoop: a row is also deleted at the instant of its
\* expiry.
RECURSIVE cleanupLoopInclusive(_, _, _, _)
cleanupLoopInclusive(sheet, data, i, clock) ==
    IF i < 1 THEN sheet
    ELSE cleanupLoopInclusive(IF DateParse(data[i + 1][4]) <= clock
                              THEN deleteRow(sheet, i + 1) ELSE sheet,
                              data, i - 1, clock)

\* The reverse loop of cleanupExpiredSessions: i is the code's 0-based index
\* into the snapshot data; deletions act on the live sheet by row number.
RECURSIVE cleanupLoop(_, _, _, _)
cleanupLoop(sheet, data, i, clock) ==
    IF i < 1 THEN sheet
    ELSE cleanupLoop(IF DateParse(data[i + 1][4]) < clock
                     THEN deleteRow(sheet, i + 1) ELSE sheet,
                     data, i - 1, clock)

\* Faulty variant of cleanupExpiredSessions: the loop runs from the top of
\* the sheet to the bottom.
RECURSIVE cleanupLoopForward(_, _, _, _)
cleanupLoopForward(sheet, data, i, clock) ==
    IF i >= Len(data) THEN sheet
    ELSE cleanupLoopForward(IF DateParse(data[i + 1][4]) < clock
                            THEN deleteRow(sheet, i + 1) ELSE sheet,
                            data, i + 1, clock)

cleanupExpiredSessionsForward(sheet, clock) ==
    IF sheet = NoSheet THEN sheet
    ELSE cleanupLoopForward(sheet, sheet, 1, clock)

cleanupExpiredSessions(sheet, clock) ==
    IF sheet = NoSheet THEN sheet
    ELSE cleanupLoop(sheet, sheet, Len(sheet) - 1, clock)

\* Faulty variant of storeSession: the expiry is counted from a later clock
\* read than the creation time.
storeSessionLateExpiry(sheet, sessionToken, user, storeClock, sweepClock) ==
    LET sessionsSheet == IF sheet = NoSheet THEN appendRow(<< >>, SessionsHeader) ELSE sheet
        expiresAt == sweepClock + SESSION_TIMEOUT
        appended == appendRow(sessionsSheet,
                        <<sessionToken, JSONstringify(user),
                          toISOString(storeClock), toISOString(expiresAt)>>)
    IN cleanupExpiredSessions(appended, sweepClock)

\* storeSession: storeClock is its "now", sweepClock the "now" of the sweep.
storeSession(sheet, sessionToken, user, storeClock, sweepClock) ==
    LET sessionsSheet == IF sheet = NoSheet THEN appendRow(<< >>, SessionsHeader) ELSE sheet
        expiresAt == storeClock + SESSION_TIMEOUT
        appended == appendRow(sessionsSheet,
                        <<sessionToken, JSONstringify(user),
                          toISOString(storeClock), toISOString(expiresAt)>>)
    IN cleanupExpiredSessions(appended, sweepClock)

\* Faulty variant of generateSessionToken: the token is the timestamp alone.
generateSessionTokenTimeOnly(n, clock) == "_" \o ToString(clock)

generateSessionToken(n, clock) == getUuid(n) \o "_" \o ToString(clock)

createUsersSheet(n) ==
    << UsersHeader,
       <<"admin", "admin123", "admin@dyesabel.org", "admin", getUuid(n), "">>,
       <<"chapter1", "chapter123", "chapter1@dyesabel.org", "chapter_head", getUuid(n + 1), "quezon-city">>,
       <<"editor", "editor123", "editor@dyesabel.org", "editor", getUuid(n + 2), "">> >>

----------------------------------------------------------------------------
(* Authentication handlers, as functions of the state they read *)

\* Faulty variant of firstUserRow: the scan does not stop at the first match.
firstUserRowLast(data, username, password) ==
    IF \E r \in 2..Len(data) : data[r][1] = username /\ data[r][2] = password
    THEN CHOOSE r \in 2..Len(data) :
            /\ data[r][1] = username /\ data[r][2] = password
            /\ \A q \in (r + 1)..Len(data) : ~(data[q][1] = username /\ data[q][2] = password)
    ELSE 0

\* The login scan: the sheet row of the first row matching both columns, or 0.
firstUserRow(data, username, password) ==
    IF \E r \in 2..Len(data) : data[r][1] = username /\ data[r][2] = password
    THEN CHOOSE r \in 2..Len(data) :
            /\ data[r][1] = username /\ data[r][2] = password
            /\ \A q \in 2..(r - 1) : ~(data[q][1] = username /\ data[q][2] = password)
    ELSE 0

\* Faulty variant of userOf: the email is read one column to the left.
userOfWrongColumn(row, n) ==
    [id |-> IF row[5] # "" THEN row[5] ELSE getUuid(n),
     username |-> row[1],
     email |-> row[2],
     role |-> row[4],
     chapterId |-> IF row[6] # "" THEN row[6] ELSE Null]

\* The user object built from a matching row; n numbers the fallback UUID.
userOf(row, n) ==
    [id |-> IF row[5] # "" THEN row[5] ELSE getUuid(n),
     username |-> row[1],
     email |-> row[3],
     role |-> row[4],
     chapterId |-> IF row[6] # "" THEN row[6] ELSE Null]

\* Faulty variant of loginFailure: the message tells whether the name exists.
loginFailureLeaky(data, username) ==
    IF \E r \in 2..Len(data) : data[r][1] = username
    THEN createResponse(FALSE, "Wrong password", NoData)
    ELSE createResponse(FALSE, "Unknown user", NoData)

\* The answer of handleLogin when the scan of data ends without a match.
loginFailure(data, username) ==
    createResponse(FALSE, "Invalid username or password", NoData)

\* handleLogin read at clock value clock; d1 and d2 are the time that passes
\* before storeSession reads the clock and before the sweep reads it.
\* Faulty variant of handleLogin: the sweep also runs when no row matches.
handleLoginSweepOnFailure(us, ss, clock, n, username, password, d1, d2) ==
    LET usersSheet == IF us = NoSheet THEN createUsersSheet(n) ELSE us
        n1 == IF us = NoSheet THEN n + 3 ELSE n
        r == firstUserRow(usersSheet, username, password)
    IN IF r = 0
       THEN [users |-> usersSheet, sessions |-> cleanupExpiredSessions(ss, clock + d1 + d2),
             nextUuid |-> n1, now |-> clock + d1 + d2,
             swept |-> NoSweep, stored |-> {},
             resp |-> loginFailure(usersSheet, username)]
       ELSE LET row == usersSheet[r]
                sessionToken == generateSessionToken(n1, clock)
                user == userOf(row, n1 + 1)
                n2 == IF row[5] # "" THEN n1 + 1 ELSE n1 + 2
            IN [users |-> usersSheet,
                sessions |-> storeSession(ss, sessionToken, user, clock + d1, clock + d1 + d2),
                nextUuid |-> n2, now |-> clock + d1 + d2,
                swept |-> clock + d1 + d2,
                stored |-> {[token |-> sessionToken, createdAt |-> clock + d1, user |-> user]},
                resp |-> createResponse(TRUE, "Login successful",
                            [user |-> user, sessionToken |-> sessionToken])]

handleLogin(us, ss, clock, n, username, password, d1, d2) ==
    LET usersSheet == IF us = NoSheet THEN createUsersSheet(n) ELSE us
        n1 == IF us = NoSheet THEN n + 3 ELSE n
        r == firstUserRow(usersSheet, username, password)
    IN IF r = 0
       THEN [users |-> usersSheet, sessions |-> ss, nextUuid |-> n1, now |-> clock,
             swept |-> NoSweep, stored |-> {},
             resp |-> loginFailure(usersSheet, username)]
       ELSE LET row == usersSheet[r]
                sessionToken == generateSessionToken(n1, clock)
                user == userOf(row, n1 + 1)
                n2 == IF row[5] # "" THEN n1 + 1 ELSE n1 + 2
            IN [users |-> usersSheet,
                sessions |-> storeSession(ss, sessionToken, user, clock + d1, clock + d1 + d2),
                nextUuid |-> n2, now |-> clock + d1 + d2,
                swept |-> clock + d1 + d2,
                stored |-> {[token |-> sessionToken, createdAt |-> clock + d1, user |-> user]},
                resp |-> createResponse(TRUE, "Login successful",
                            [user |-> user, sessionToken |-> sessionToken])]

\* Faulty variant of handleLogout: the row after the matching one is deleted.
handleLogoutOffByOne(ss, sessionToken) ==
    LET r == IF ss = NoSheet THEN 0 ELSE firstTokenRow(ss, sessionToken)
    IN [sessions |-> IF r = 0 THEN ss ELSE deleteRow(ss, r + 1),
        resp |-> createResponse(TRUE, "Logged out successfully", NoData)]

\* Faulty variant of handleLogout: a token that is not found is an error.
handleLogoutStrict(ss, sessionToken) ==
    LET r == IF ss = NoSheet THEN 0 ELSE firstTokenRow(ss, sessionToken)
    IN [sessions |-> IF r = 0 THEN ss ELSE deleteRow(ss, r),
        resp |-> IF r = 0 THEN createResponse(FALSE, "Session not found", NoData)
                 ELSE createResponse(TRUE, "Logged out successfully", NoData)]

handleLogout(ss, sessionToken) ==
    LET r == IF ss = NoSheet THEN 0 ELSE firstTokenRow(ss, sessionToken)
    IN [sessions |-> IF r = 0 THEN ss ELSE deleteRow(ss, r),
        resp |-> createResponse(TRUE, "Logged out successfully", NoData)]

\* Faulty variant of handleValidateSession: the user is fetched again from
\* the Users sheet by the name in the snapshot.
handleValidateSessionRefetch(ss, sessionToken, clock) ==
    LET session == getSession(ss, sessionToken)
    IN IF session # NullSession /\ ~isSessionExpired(session, clock)
       THEN LET snapshot == JSONparse(session.userData)
                rows == {r \in 2..Len(users) : users[r][1] = snapshot.username}
            IN IF rows = {} THEN createResponse(FALSE, "Invalid or expired session", NoData)
               ELSE createResponse(TRUE, "Session valid",
                        [user |-> userOf(users[CHOOSE r \in rows : \A q \in rows : r <= q], 0)])
       ELSE createResponse(FALSE, "Invalid or expired session", NoData)

handleValidateSession(ss, sessionToken, clock) ==
    LET session == getSession(ss, sessionToken)
    IN IF session # NullSession /\ ~isSessionExpired(session, clock)
       THEN createResponse(TRUE, "Session valid", [user |-> JSONparse(session.userData)])
       ELSE createResponse(FALSE, "Invalid or expired session", NoData)

----------------------------------------------------------------------------
(* Requests *)

\* A POST body: valid is whether JSON.parse accepts it; a member the body
\* does not carry reads as Undefined.
Body(action, username, password, sessionToken) ==
    [valid |-> TRUE, action |-> action, username |-> username,
     password |-> password, sessionToken |-> sessionToken]

MalformedBody ==
    [valid |-> FALSE, action |-> Undefined, username |-> Undefined,
     password |-> Undefined, sessionToken |-> Undefined]

NoRequest == Body("none", Undefined, Undefined, Undefined)

NoResponse == [k \in {} |-> ""]

\* No storage call has thrown: point, error and token tell of the last step,
\* count of the whole run.
NoFault == [point |-> "none", error |-> "", token |-> "", count |-> 0]

\* The requests that can overlap.
Procs == {1, 2}

\* A request between two storage calls: data is its snapshot of the Sessions
\* sheet, i the row it matched (logout) or the loop index (sweep), stale
\* whether another request has changed the sheet since the snapshot.
InFlight(pc, body, data, i, clock, answer, stale) ==
    [pc |-> pc, body |-> body, data |-> data, i |-> i, clock |-> clock,
     answer |-> answer, stale |-> stale]

\* A request not running holds nothing.
Idle == [pc |-> "idle"]

\* The last deleteRow call: the snapshot row it was computed from, and the
\* row of the live sheet it removed.
Deleted(by, target, actual, stale) ==
    [by |-> by, target |-> target, actual |-> actual, stale |-> stale]

NoRow == << >>

NoDelete == [by |-> "none"]

\* No request is in flight and no row has been deleted by position.
NoneInFlight == [inflight |-> [p \in Procs |-> Idle], last |-> NoDelete]

\* useState of chapterData: the record the editor starts from.
InitialChapterData ==
    [title |-> "Quezon City Chapter",
     description |-> "Building strong communities through education and empowerment",
     activities |-> << [id |-> 1, title |-> "Youth Leadership Program",
                        description |-> "Empowering young leaders"],
                       [id |-> 2, title |-> "Community Outreach",
                        description |-> "Reaching out to communities in need"] >>,
     members |-> 45,
     imageUrl |-> "https://images.unsplash.com/photo-1529156069898-49953e39b3ac?auto=format&fit=crop&q=80&w=800"]

\* The editor as first rendered: timer tells whether its save delay is
\* pending, orphans counts the pending delays of editors since unmounted,
\* calls lists what the last handler invoked.
EditorMounted ==
    [mounted |-> TRUE, isSaving |-> FALSE, timer |-> FALSE, orphans |-> 0,
     chapterData |-> InitialChapterData, auth |-> "in", calls |-> << >>, confirmed |-> FALSE]

\* The credentials tried: a default user, its name with another user's
\* password, and a name no default row has.
Credentials ==
    {<<"admin", "admin123">>, <<"admin", "chapter123">>, <<"ghost", "admin123">>}

\* The milliseconds past midnight at which the clock is read.
ClockOffsets == {0, 1}

\* The milliseconds that pass before storeSession reads the clock, and then
\* before the cleanup sweep reads it.
Drift == {<<0, 0>>, <<0, 1>>}

IssuedTokens == {s.token : s \in issued}

Tokens == IssuedTokens \cup {"bogus"}

Bodies ==
    {Body("login", c[1], c[2], Undefined) : c \in Credentials}
    \cup {Body(a, Undefined, Undefined, t) : a \in {"logout", "validateSession"}, t \in Tokens}
    \cup {Body("register", "ghost", "admin123", Undefined), MalformedBody}

DataRows(sheet) == SubSeq(sheet, 2, Len(sheet))

\* The rows of the sheet before the step that are in no row of the sheet after it.
RemovedRows(before, after) ==
    IF before = NoSheet THEN << >>
    ELSE SelectSeq(DataRows(before),
                   LAMBDA row : ~ \E q \in 2..Len(after) : after[q] = row)

----------------------------------------------------------------------------
(* Actions *)

\* No storage call threw, no request is in flight, the editor is untouched.
Elsewhere ==
    /\ fault' = [NoFault EXCEPT !.count = fault.count]
    /\ UNCHANGED <<conc, ui>>

Init ==
    /\ fault = NoFault
    /\ conc = NoneInFlight
    /\ ui = EditorMounted
    /\ users = NoSheet
    /\ sessions = NoSheet
    /\ now = 0
    /\ nextUuid = 1
    /\ issued = {}
    /\ removed = << >>
    /\ swept = NoSweep
    /\ req = NoRequest
    /\ resp = NoResponse

\* doPost, case 'login'
Login(body, d1, d2) ==
    LET out == handleLogin(users, sessions, now, nextUuid, body.username, body.password, d1, d2)
    IN /\ body.valid /\ body.action = "login"
       /\ out.nextUuid <= MaxUuid + 1
       /\ (now % MsPerDay) + d1 + d2 \in ClockOffsets
       /\ users' = out.users
       /\ sessions' = out.sessions
       /\ now' = out.now
       /\ nextUuid' = out.nextUuid
       /\ issued' = issued \cup out.stored
       /\ removed' = RemovedRows(sessions, out.sessions)
       /\ swept' = out.swept
       /\ req' = body
       /\ resp' = out.resp
       /\ Elsewhere

\* doPost, case 'logout'
Logout(body) ==
    LET out == handleLogout(sessions, body.sessionToken)
    IN /\ body.valid /\ body.action = "logout"
       /\ sessions' = out.sessions
       /\ removed' = RemovedRows(sessions, out.sessions)
       /\ swept' = NoSweep
       /\ req' = body
       /\ resp' = out.resp
       /\ Elsewhere
       /\ UNCHANGED <<users, now, nextUuid, issued>>

\* doPost, case 'validateSession'
ValidateSession(body) ==
    /\ Elsewhere
    /\ body.valid /\ body.action = "validateSession"
    /\ removed' = << >>
    /\ swept' = NoSweep
    /\ req' = body
    /\ resp' = handleValidateSession(sessions, body.sessionToken, now)
    /\ UNCHANGED <<users, sessions, now, nextUuid, issued>>

\* doPost, default case
InvalidAction(body) ==
    /\ Elsewhere
    /\ body.valid /\ body.action \notin {"login", "logout", "validateSession"}
    /\ removed' = << >>
    /\ swept' = NoSweep
    /\ req' = body
    /\ resp' = createResponse(FALSE, "Invalid action", NoData)
    /\ UNCHANGED <<users, sessions, now, nextUuid, issued>>

\* doPost, when JSON.parse throws and the catch clause answers
ServerError(body) ==
    /\ Elsewhere
    /\ ~body.valid
    /\ removed' = << >>
    /\ swept' = NoSweep
    /\ req' = body
    /\ resp' = createResponse(FALSE, "Server error: SyntaxError", NoData)
    /\ UNCHANGED <<users, sessions, now, nextUuid, issued>>

Quiet ==
    /\ Elsewhere
    /\ removed' = << >>
    /\ swept' = NoSweep
    /\ req' = NoRequest
    /\ resp' = NoResponse

\* initializeSystem, run from the script editor
initializeSystem ==
    /\ users = NoSheet \/ sessions = NoSheet
    /\ users = NoSheet => nextUuid + 3 <= MaxUuid + 1
    /\ users' = IF users = NoSheet THEN createUsersSheet(nextUuid) ELSE users
    /\ nextUuid' = IF users = NoSheet THEN nextUuid + 3 ELSE nextUuid
    /\ sessions' = IF sessions = NoSheet THEN appendRow(<< >>, SessionsHeader) ELSE sessions
    /\ Quiet
    /\ UNCHANGED <<now, issued>>

\* addUser, run from the script editor
addUser(username, password, email, role, chapterId) ==
    /\ users # NoSheet
    /\ nextUuid <= MaxUuid
    /\ users' = appendRow(users, <<username, password, email, role, getUuid(nextUuid), chapterId>>)
    /\ nextUuid' = nextUuid + 1
    /\ Quiet
    /\ UNCHANGED <<sessions, now, issued>>

\* The sheet owner types a new value into a cell of a user row.
EditUserCell(r, c, v) ==
    /\ users # NoSheet
    /\ r \in 2..Len(users)
    /\ users[r][c] # v
    /\ users' = [users EXCEPT ![r][c] = v]
    /\ Quiet
    /\ UNCHANGED <<sessions, now, nextUuid, issued>>

\* A millisecond passes between requests.
Tick ==
    /\ (now % MsPerDay) + 1 \in ClockOffsets
    /\ now' = now + 1
    /\ Quiet
    /\ UNCHANGED <<users, sessions, nextUuid, issued>>

\* Twenty-four hours pass between requests.
NextDay ==
    /\ now \div MsPerDay < MaxDays
    /\ now' = now + MsPerDay
    /\ Quiet
    /\ UNCHANGED <<users, sessions, nextUuid, issued>>

\* The owner's edits: the User ID cell of the first user row is cleared.
Edits == {<<2, 5, "">>}

\* The users the administrator adds.
NewUsers == {<<"ghost", "admin123", "ghost@dyesabel.org", "editor", "cebu">>}

Next ==
    \/ \E body \in Bodies : \E d \in Drift : Login(body, d[1], d[2])
    \/ \E body \in Bodies : Logout(body)
    \/ \E body \in Bodies : ValidateSession(body)
    \/ \E body \in Bodies : InvalidAction(body)
    \/ \E body \in Bodies : ServerError(body)
    \/ initializeSystem
    \/ \E u \in NewUsers : addUser(u[1], u[2], u[3], u[4], u[5])
    \/ \E e \in Edits : EditUserCell(e[1], e[2], e[3])
    \/ Tick
    \/ NextDay

Spec == Init /\ [][Next]_vars

\* The requests and the clock alone: the sheets change only through doPost,
\* nobody runs a function from the script editor or edits a cell.
NextRequests ==
    \/ \E body \in Bodies : \E d \in Drift : Login(body, d[1], d[2])
    \/ \E body \in Bodies : Logout(body)
    \/ \E body \in Bodies : ValidateSession(body)
    \/ \E body \in Bodies : InvalidAction(body)
    \/ \E body \in Bodies : ServerError(body)
    \/ Tick
    \/ NextDay

SpecRequests == Init /\ [][NextRequests]_vars

----------------------------------------------------------------------------
(* Storage faults: a call of the spreadsheet service throws *)

\* The text of the exception a spreadsheet call throws, error.toString().
StorageErrors == {"Exception: Service Spreadsheets failed"}

\* What getDataRange().getValues() shows of a sheet just inserted.
EmptySheet == << <<"">> >>

\* A storage call about to be made: the line of the call, and the state in
\* which the request leaves the spreadsheet if the call throws.
Call(point, us, ss, n, token) ==
    [point |-> point, users |-> us, sessions |-> ss, nextUuid |-> n, token |-> token]

\* The storage calls of createUsersSheet, in order.
createUsersSheetCalls(ss, n) ==
    LET full == createUsersSheet(n)
    IN << Call("insertSheet:244", NoSheet, ss, n, ""),
          Call("appendRow:247", EmptySheet, ss, n, ""),
          Call("appendRow:250", SubSeq(full, 1, 1), ss, n + 1, ""),
          Call("appendRow:259", SubSeq(full, 1, 2), ss, n + 2, ""),
          Call("appendRow:268", SubSeq(full, 1, 3), ss, n + 3, "") >>

\* The reverse loop of cleanupExpiredSessions when the deleteRow call that
\* follows `done` completed ones throws: the sheet as the loop leaves it.
RECURSIVE cleanupLoopThrows(_, _, _, _, _)
cleanupLoopThrows(sheet, data, i, clock, done) ==
    IF i < 1 THEN sheet
    ELSE IF DateParse(data[i + 1][4]) < clock
         THEN IF done = 0 THEN sheet
              ELSE cleanupLoopThrows(deleteRow(sheet, i + 1), data, i - 1, clock, done - 1)
         ELSE cleanupLoopThrows(sheet, data, i - 1, clock, done)

\* The storage calls of cleanupExpiredSessions, in order.
cleanupExpiredSessionsCalls(us, ss, n, token, clock) ==
    << Call("openById:204", us, ss, n, token),
       Call("getSheetByName:205", us, ss, n, token),
       Call("getDataRange:209", us, ss, n, token) >>
    \o [k \in 1..Cardinality({r \in 2..Len(ss) : DateParse(ss[r][4]) < clock}) |->
            Call("deleteRow:216", us,
                 cleanupLoopThrows(ss, ss, Len(ss) - 1, clock, k - 1), n, token)]

\* The storage calls of storeSession, in order.
storeSessionCalls(us, ss, n, sessionToken, user, clock) ==
    LET sessionsSheet == IF ss = NoSheet THEN appendRow(<< >>, SessionsHeader) ELSE ss
        appended == appendRow(sessionsSheet,
                        <<sessionToken, JSONstringify(user),
                          toISOString(clock), toISOString(clock + SESSION_TIMEOUT)>>)
    IN << Call("openById:154", us, ss, n, sessionToken),
          Call("getSheetByName:155", us, ss, n, sessionToken) >>
       \o (IF ss = NoSheet
           THEN << Call("insertSheet:159", us, NoSheet, n, sessionToken),
                   Call("appendRow:160", us, EmptySheet, n, sessionToken) >>
           ELSE << >>)
       \o << Call("appendRow:166", us, sessionsSheet, n, sessionToken) >>
       \o cleanupExpiredSessionsCalls(us, appended, n, sessionToken, clock)

\* The storage calls of handleLogin, in order.
handleLoginCalls(us, ss, clock, n, username, password) ==
    LET usersSheet == IF us = NoSheet THEN createUsersSheet(n) ELSE us
        n1 == IF us = NoSheet THEN n + 3 ELSE n
        r == firstUserRow(usersSheet, username, password)
    IN << Call("openById:65", us, ss, n, ""),
          Call("getSheetByName:66", us, ss, n, "") >>
       \o (IF us = NoSheet THEN createUsersSheetCalls(ss, n) ELSE << >>)
       \o << Call("getDataRange:74", usersSheet, ss, n1, "") >>
       \o (IF r = 0 THEN << >>
           ELSE LET row == usersSheet[r]
                    n2 == IF row[5] # "" THEN n1 + 1 ELSE n1 + 2
                IN storeSessionCalls(usersSheet, ss, n2, generateSessionToken(n1, clock),
                                     userOf(row, n1 + 1), clock))

\* The storage calls of handleLogout, in order; none has changed the sheet.
handleLogoutCalls(ss, sessionToken) ==
    << "openById:112", "getSheetByName:113" >>
    \o (IF ss = NoSheet THEN << >>
        ELSE << "getDataRange:116" >>
             \o (IF firstTokenRow(ss, sessionToken) = 0 THEN << >>
                 ELSE << "deleteRow:119" >>))

\* The storage calls of getSession, in order.
getSessionCalls(ss) ==
    << "openById:178", "getSheetByName:179" >>
    \o (IF ss = NoSheet THEN << >> ELSE << "getDataRange:183" >>)

\* Faulty variant of handleLoginCatch: the error text is dropped.
handleLoginCatchSilent(error) == createResponse(FALSE, "Login error", NoData)

\* The catch blocks of the three handlers.
handleLoginCatch(error) == createResponse(FALSE, "Login error: " \o error, NoData)

handleLogoutCatch(error) == createResponse(FALSE, "Logout error: " \o error, NoData)

handleValidateSessionCatch(error) == createResponse(FALSE, "Validation error: " \o error, NoData)

\* doPost, case 'login', when one of the storage calls of the request throws.
LoginThrows(body, error) ==
    LET calls == handleLoginCalls(users, sessions, now, nextUuid, body.username, body.password)
    IN /\ body.valid /\ body.action = "login"
       /\ calls[Len(calls)].nextUuid <= MaxUuid + 1
       /\ fault.count < MaxFaults
       /\ \E k \in 1..Len(calls) :
           /\ users' = calls[k].users
           /\ sessions' = calls[k].sessions
           /\ nextUuid' = calls[k].nextUuid
           /\ removed' = RemovedRows(sessions, calls[k].sessions)
           /\ swept' = NoSweep
           /\ req' = body
           /\ resp' = handleLoginCatch(error)
           /\ fault' = [point |-> calls[k].point, error |-> error, token |-> calls[k].token,
                        count |-> fault.count + 1]
           /\ UNCHANGED <<now, issued, conc, ui>>

\* doPost, case 'logout', when one of the storage calls of the request throws.
LogoutThrows(body, error) ==
    LET calls == handleLogoutCalls(sessions, body.sessionToken)
    IN /\ body.valid /\ body.action = "logout"
       /\ fault.count < MaxFaults
       /\ \E k \in 1..Len(calls) :
           /\ removed' = << >>
           /\ swept' = NoSweep
           /\ req' = body
           /\ resp' = handleLogoutCatch(error)
           /\ fault' = [point |-> calls[k], error |-> error, token |-> "", count |-> fault.count + 1]
           /\ UNCHANGED <<users, sessions, now, nextUuid, issued, conc, ui>>

\* doPost, case 'validateSession', when one of the storage calls of the
\* request throws.
ValidateSessionThrows(body, error) ==
    LET calls == getSessionCalls(sessions)
    IN /\ body.valid /\ body.action = "validateSession"
       /\ fault.count < MaxFaults
       /\ \E k \in 1..Len(calls) :
           /\ removed' = << >>
           /\ swept' = NoSweep
           /\ req' = body
           /\ resp' = handleValidateSessionCatch(error)
           /\ fault' = [point |-> calls[k], error |-> error, token |-> "", count |-> fault.count + 1]
           /\ UNCHANGED <<users, sessions, now, nextUuid, issued, conc, ui>>

NextFault ==
    \/ \E body \in Bodies : Login(body, 0, 0)
    \/ \E body \in Bodies : \E error \in StorageErrors : LoginThrows(body, error)
    \/ \E body \in Bodies : \E error \in StorageErrors : LogoutThrows(body, error)
    \/ \E body \in Bodies : \E error \in StorageErrors : ValidateSessionThrows(body, error)
    \/ Tick
    \/ NextDay

SpecFault == Init /\ [][NextFault]_vars

----------------------------------------------------------------------------
(* Overlapping requests: the script runs a second doPost while a first one
   is between its read of the Sessions sheet and its deleteRow calls *)

\* Faulty variant of deleteGridRow: the row below the one asked for goes.
deleteGridRowBelow(sheet, r) == IF r + 1 > Len(sheet) THEN sheet ELSE deleteRow(sheet, r + 1)

\* Sheet.deleteRow(r) when r may lie below the last row with content: a
\* blank row of the grid goes and the data stay.
deleteGridRow(sheet, r) == IF r > Len(sheet) THEN sheet ELSE deleteRow(sheet, r)

\* The row a step took out of the sheet, NoRow when the data stayed.
RowGone(before, after) ==
    IF RemovedRows(before, after) = << >> THEN NoRow ELSE RemovedRows(before, after)[1]

\* storeSession up to and including its appendRow.
appendSession(sheet, sessionToken, user, storeClock) ==
    LET sessionsSheet == IF sheet = NoSheet THEN appendRow(<< >>, SessionsHeader) ELSE sheet
    IN appendRow(sessionsSheet,
                 <<sessionToken, JSONstringify(user),
                   toISOString(storeClock), toISOString(storeClock + SESSION_TIMEOUT)>>)

\* The reverse loop of the sweep from index i down: the next index whose
\* snapshot row is expired, 0 when the loop ends without one.
nextExpired(data, i, clock) ==
    IF \E j \in 1..i : DateParse(data[j + 1][4]) < clock
    THEN CHOOSE j \in 1..i :
            /\ DateParse(data[j + 1][4]) < clock
            /\ \A m \in (j + 1)..i : ~(DateParse(data[m + 1][4]) < clock)
    ELSE 0

\* The requests in flight after request p moved to `next` and, when it
\* changed the sheet, the snapshots of the others went stale.
Moved(p, next, changed) ==
    [q \in DOMAIN conc.inflight |->
        IF q = p THEN next
        ELSE IF changed /\ conc.inflight[q].pc \in {"logoutDelete", "sweep"}
             THEN [conc.inflight[q] EXCEPT !.stale = TRUE]
             ELSE conc.inflight[q]]

\* A new request runs as p when p is the first execution not running.
FreeSlot(p) ==
    /\ conc.inflight[p].pc = "idle"
    /\ \A q \in Procs : q < p => conc.inflight[q].pc # "idle"

\* handleLogout, lines 112-118: the sheet is read and the token looked up.
LogoutRead(p, body) ==
    LET r == IF sessions = NoSheet THEN 0 ELSE firstTokenRow(sessions, body.sessionToken)
    IN /\ FreeSlot(p)
       /\ body.valid /\ body.action = "logout"
       /\ IF r = 0
          THEN /\ req' = body
               /\ resp' = handleLogout(sessions, body.sessionToken).resp
               /\ conc' = [inflight |-> conc.inflight, last |-> NoDelete]
          ELSE /\ conc' = [inflight |-> Moved(p, InFlight("logoutDelete", body, sessions, r, now,
                                                         NoResponse, FALSE), FALSE),
                           last |-> NoDelete]
               /\ UNCHANGED <<req, resp>>
       /\ removed' = << >>
       /\ swept' = NoSweep
       /\ UNCHANGED <<users, sessions, now, nextUuid, issued, fault, ui>>

\* handleLogout, lines 119-124: deleteRow at the position found in the
\* snapshot, and the response.
LogoutDelete(p) ==
    LET me == conc.inflight[p]
    IN /\ me.pc = "logoutDelete"
       /\ sessions' = deleteGridRow(sessions, me.i)
       /\ conc' = [inflight |-> Moved(p, Idle, TRUE),
                   last |-> Deleted("logout", me.data[me.i], RowGone(sessions, sessions'),
                                    me.stale)]
       /\ removed' = RemovedRows(sessions, sessions')
       /\ swept' = NoSweep
       /\ req' = me.body
       /\ resp' = createResponse(TRUE, "Logged out successfully", NoData)
       /\ UNCHANGED <<users, now, nextUuid, issued, fault, ui>>

\* handleLogin up to the appendRow of storeSession, lines 65-171.
LoginAppend(p, body) ==
    LET out == handleLogin(users, sessions, now, nextUuid, body.username, body.password, 0, 0)
    IN /\ FreeSlot(p)
       /\ body.valid /\ body.action = "login"
       /\ out.nextUuid <= MaxUuid + 1
       /\ users' = out.users
       /\ nextUuid' = out.nextUuid
       /\ issued' = issued \cup out.stored
       /\ IF out.stored = {}
          THEN /\ req' = body
               /\ resp' = out.resp
               /\ conc' = [inflight |-> conc.inflight, last |-> NoDelete]
               /\ UNCHANGED sessions
          ELSE LET s == CHOOSE x \in out.stored : TRUE
               IN /\ sessions' = appendSession(sessions, s.token, s.user, now)
                  /\ conc' = [inflight |-> Moved(p, InFlight("sweepRead", body, NoSheet, 0, now,
                                                            out.resp, FALSE), TRUE),
                              last |-> NoDelete]
                  /\ UNCHANGED <<req, resp>>
       /\ removed' = << >>
       /\ swept' = NoSweep
       /\ UNCHANGED <<now, fault, ui>>

\* cleanupExpiredSessions, lines 204-210: the sheet and the clock are read.
SweepRead(p) ==
    LET me == conc.inflight[p]
    IN /\ me.pc = "sweepRead"
       /\ conc' = [inflight |-> Moved(p, [me EXCEPT !.pc = "sweep", !.data = sessions,
                                                    !.i = Len(sessions) - 1, !.clock = now],
                                      FALSE),
                   last |-> NoDelete]
       /\ removed' = << >>
       /\ swept' = NoSweep
       /\ UNCHANGED <<users, sessions, now, nextUuid, issued, req, resp, fault, ui>>

\* cleanupExpiredSessions, lines 213-218: the loop runs down to its next
\* deleteRow call, or to its end and the login is answered.
SweepDelete(p) ==
    LET me == conc.inflight[p]
        j == nextExpired(me.data, me.i, me.clock)
    IN /\ me.pc = "sweep"
       /\ IF j = 0
          THEN /\ conc' = [inflight |-> Moved(p, Idle, FALSE), last |-> NoDelete]
               /\ req' = me.body
               /\ resp' = me.answer
               /\ swept' = me.clock
               /\ UNCHANGED sessions
          ELSE /\ sessions' = deleteGridRow(sessions, j + 1)
               /\ conc' = [inflight |-> Moved(p, [me EXCEPT !.i = j - 1], TRUE),
                           last |-> Deleted("sweep", me.data[j + 1],
                                            RowGone(sessions, sessions'), me.stale)]
               /\ swept' = NoSweep
               /\ UNCHANGED <<req, resp>>
       /\ removed' = RemovedRows(sessions, sessions')
       /\ UNCHANGED <<users, now, nextUuid, issued, fault, ui>>

\* The requests that overlap: logins of the default administrator and
\* logouts of the tokens issued so far.
ConcBodies ==
    {Body("login", "admin", "admin123", Undefined)}
    \cup {Body("logout", Undefined, Undefined, t) : t \in IssuedTokens}

NextConc ==
    \/ \E p \in Procs : \E body \in ConcBodies : LoginAppend(p, body)
    \/ \E p \in Procs : SweepRead(p)
    \/ \E p \in Procs : SweepDelete(p)
    \/ \E p \in Procs : \E body \in ConcBodies : LogoutRead(p, body)
    \/ \E p \in Procs : LogoutDelete(p)
    \/ Tick
    \/ NextDay

SpecConc == Init /\ [][NextConc]_vars

----------------------------------------------------------------------------
(* The chapter editor component *)

\* Number("") and the like, as parseInt returns it.
NaN == 0 - 1

\* parseInt of the text of the number input.
parseInt(text) ==
    IF text = "45" THEN 45
    ELSE IF text = "46" THEN 46
    ELSE IF text = "46.5" THEN 46
    ELSE NaN

\* useAuth().logout of the auth context: the signed-in user is cleared.
logout(u) == [u EXCEPT !.auth = "out"]

\* The onBack prop: the parent navigates away and the editor, with its
\* isSaving and chapterData, is gone; a pending save timer stays scheduled.
onBack(u) ==
    [u EXCEPT !.mounted = FALSE, !.isSaving = FALSE, !.timer = FALSE,
              !.orphans = @ + (IF u.timer THEN 1 ELSE 0),
              !.chapterData = InitialChapterData]

\* The effect on the editor of the callbacks a handler invoked, in order.
RECURSIVE Invoke(_, _)
Invoke(u, calls) ==
    IF calls = << >> THEN u
    ELSE Invoke(IF Head(calls) = "logout" THEN logout(u)
                ELSE IF Head(calls) = "onBack" THEN onBack(u)
                ELSE IF Head(calls) = "setIsSaving(true)" THEN [u EXCEPT !.isSaving = TRUE]
                ELSE IF Head(calls) = "setIsSaving(false)" THEN [u EXCEPT !.isSaving = FALSE]
                ELSE IF Head(calls) = "setTimeout" THEN [u EXCEPT !.timer = TRUE]
                ELSE u,
                Tail(calls))

\* handleSave up to its await.
editorHandleSave == << "handleSave", "setIsSaving(true)", "setTimeout" >>

\* handleSave after its await.
editorHandleSaveResumed == << "setIsSaving(false)", "alert" >>

\* Faulty variant of editorHandleLogout: onBack is called before logout.
editorHandleLogoutBackFirst(confirmed) ==
    IF confirmed THEN << "confirm", "onBack", "logout" >> ELSE << "confirm" >>

\* handleLogout of the editor: what it calls, given the answer to confirm().
editorHandleLogout(confirmed) ==
    IF confirmed THEN << "confirm", "logout", "onBack" >> ELSE << "confirm" >>

\* Faulty variant of SaveDisabled: the button is never disabled.
SaveDisabledNever == FALSE

\* The disabled attribute of the Save button.
SaveDisabled == ui.isSaving

\* The steps of the editor leave the spreadsheet and the requests alone.
OnlyEditor == UNCHANGED <<users, sessions, now, nextUuid, issued, removed, swept, req, resp, fault, conc>>

\* The user clicks Save.
ClickSave ==
    /\ ui.mounted
    /\ ~SaveDisabled
    /\ ui.orphans + 1 <= MaxTimers
    /\ ui' = [Invoke(ui, editorHandleSave) EXCEPT !.calls = editorHandleSave]
    /\ OnlyEditor

\* The timer of the mounted editor's save fires.
SaveTimerFires ==
    /\ ui.mounted
    /\ ui.timer
    /\ ui' = [Invoke(ui, editorHandleSaveResumed) EXCEPT !.timer = FALSE,
                                                          !.calls = editorHandleSaveResumed]
    /\ OnlyEditor

\* The timer of a save fires whose editor is gone: setIsSaving has no
\* component to act on.
OrphanTimerFires ==
    /\ ui.orphans > 0
    /\ ui' = [ui EXCEPT !.orphans = @ - 1, !.calls = editorHandleSaveResumed]
    /\ OnlyEditor

\* The user types into the title, description, image URL or member count.
EditField(field, text) ==
    /\ ui.mounted
    /\ ui' = [ui EXCEPT !.chapterData[field] = IF field = "members" THEN parseInt(text) ELSE text,
                        !.calls = << "setChapterData" >>]
    /\ ui'.chapterData # ui.chapterData
    /\ OnlyEditor

\* The user types into the title or the description of the index-th activity.
EditActivity(index, field, text) ==
    /\ ui.mounted
    /\ index \in 1..Len(ui.chapterData.activities)
    /\ ui' = [ui EXCEPT !.chapterData.activities[index][field] = text,
                        !.calls = << "setChapterData" >>]
    /\ ui'.chapterData # ui.chapterData
    /\ OnlyEditor

\* The user clicks Add Activity.
AddActivity ==
    /\ ui.mounted
    /\ Len(ui.chapterData.activities) < MaxActivities
    /\ ui' = [ui EXCEPT !.chapterData.activities =
                            Append(@, [id |-> now, title |-> "", description |-> ""]),
                        !.calls = << "setChapterData" >>]
    /\ OnlyEditor

\* The user clicks Logout and answers the confirm dialog.
ClickLogout(confirmed) ==
    /\ ui.mounted
    /\ ui' = [Invoke(ui, editorHandleLogout(confirmed))
                EXCEPT !.calls = editorHandleLogout(confirmed), !.confirmed = confirmed]
    /\ OnlyEditor

\* The user clicks the back arrow.
ClickBack ==
    /\ ui.mounted
    /\ ui' = [Invoke(ui, << "onBack" >>) EXCEPT !.calls = << "onBack" >>]
    /\ OnlyEditor

\* The parent renders the editor again for a signed-in user.
Mount ==
    /\ ~ui.mounted
    /\ ui' = [EditorMounted EXCEPT !.orphans = ui.orphans]
    /\ OnlyEditor

\* What the user types.
FieldEdits ==
    {<<"title", "QC Chapter">>, <<"description", "">>, <<"imageUrl", "https://example.org/qc.png">>,
     <<"members", "46">>, <<"members", "">>}

ActivityEdits == {<<1, "title", "Youth Camp">>, <<3, "description", "Coastal cleanup">>}

NextUI ==
    \/ ClickSave
    \/ SaveTimerFires
    \/ OrphanTimerFires
    \/ \E e \in FieldEdits : EditField(e[1], e[2])
    \/ \E e \in ActivityEdits : EditActivity(e[1], e[2], e[3])
    \/ AddActivity
    \/ \E confirmed \in BOOLEAN : ClickLogout(confirmed)
    \/ ClickBack
    \/ Mount
    \/ Tick

SpecUI == Init /\ [][NextUI]_vars

\* The browser fires a scheduled timer.
SpecUILive == SpecUI /\ WF_vars(SaveTimerFires) /\ WF_vars(OrphanTimerFires)

----------------------------------------------------------------------------
(* Properties *)

IsLogin == req.valid /\ req.action = "login"

IsLogout == req.valid /\ req.action = "logout"

IsValidate == req.valid /\ req.action = "validateSession"

\* The Users sheet as a login finds it: created with the default users if absent.
UsersSeen == IF users = NoSheet THEN createUsersSheet(nextUuid) ELSE users

MatchingRows(data, username, password) ==
    {r \in 2..Len(data) : data[r][1] = username /\ data[r][2] = password}

KnownName(data, username) == \E r \in 2..Len(data) : data[r][1] = username

\* C1 as stated: a login whose username and password equal the first two
\* columns of some user row succeeds with a non-empty token and a user whose
\* id, username, email, role and chapterId equal that row's stored columns.
C1_LoginReturnsStoredColumns ==
    IsLogin =>
        \A r \in MatchingRows(users, req.username, req.password) :
            /\ resp.success = TRUE
            /\ resp.sessionToken # ""
            /\ resp.user.id = users[r][5]
            /\ resp.user.username = users[r][1]
            /\ resp.user.email = users[r][3]
            /\ resp.user.role = users[r][4]
            /\ resp.user.chapterId = users[r][6]

\* C1, amended: such a login succeeds with a non-empty token and a user built
\* from the first matching row: username, email and role are its stored
\* columns; id is its stored id, or the UUID just generated when the stored
\* id is empty; chapterId is its stored chapter id, or null when that is empty.
C1_LoginReturnsFirstMatch ==
    (IsLogin /\ MatchingRows(users, req.username, req.password) # {}) =>
        LET r == CHOOSE m \in MatchingRows(users, req.username, req.password) :
                    \A q \in MatchingRows(users, req.username, req.password) : m <= q
        IN /\ resp.success = TRUE
           /\ resp.sessionToken # ""
           /\ resp.user.username = users[r][1]
           /\ resp.user.email = users[r][3]
           /\ resp.user.role = users[r][4]
           /\ resp.user.id = IF users[r][5] # "" THEN users[r][5] ELSE getUuid(nextUuid - 1)
           /\ resp.user.chapterId = IF users[r][6] # "" THEN users[r][6] ELSE Null
           /\ DOMAIN resp.user = {"id", "username", "email", "role", "chapterId"}

\* A login matched the first user row, whose stored id and chapter id are empty.
C1_Witness ==
    /\ IsLogin
    /\ resp.success = TRUE
    /\ Cardinality(MatchingRows(users, req.username, req.password)) = 1
    /\ users[2][1] = req.username
    /\ users[2][5] = ""
    /\ users[2][6] = ""

\* C2: a login with a name no user row carries and a login with a name some
\* row carries but a password that matches no such row get the identical
\* response: success=false, the same message, no user and no sessionToken.
C2_SameFailure ==
    /\ \A c1, c2 \in Credentials :
          (/\ ~KnownName(UsersSeen, c1[1])
           /\ KnownName(UsersSeen, c2[1])
           /\ MatchingRows(UsersSeen, c2[1], c2[2]) = {})
          => LET r1 == handleLogin(users, sessions, now, nextUuid, c1[1], c1[2], 0, 0).resp
                 r2 == handleLogin(users, sessions, now, nextUuid, c2[1], c2[2], 0, 0).resp
             IN /\ r1 = r2
                /\ r1.success = FALSE
                /\ DOMAIN r1 = {"success", "message"}
    /\ (IsLogin /\ MatchingRows(users, req.username, req.password) = {})
          => resp = [success |-> FALSE, message |-> "Invalid username or password"]

\* A login with a known name and a wrong password has just been refused
\* while another name tried is unknown.
C2_Witness ==
    /\ IsLogin
    /\ resp.success = FALSE
    /\ KnownName(users, req.username)
    /\ \E c \in Credentials : ~KnownName(users, c[1])

HasToken(sheet, sessionToken) ==
    sheet # NoSheet /\ \E r \in 2..Len(sheet) : sheet[r][1] = sessionToken

\* C3: when login has just returned success with token t, validateSession(t)
\* at the same clock value succeeds with the user login returned, and the row
\* of t is in the Sessions sheet (the login's own sweep did not delete it).
C3_FreshTokenValidates ==
    (IsLogin /\ resp.success = TRUE) =>
        /\ HasToken(sessions, resp.sessionToken)
        /\ handleValidateSession(sessions, resp.sessionToken, now)
             = [success |-> TRUE, message |-> "Session valid", user |-> resp.user]

\* A login has just succeeded; time passed between its append and its sweep,
\* and the sweep deleted an older row.
C3_Witness ==
    /\ IsLogin
    /\ resp.success = TRUE
    /\ removed # << >>
    /\ \E s \in issued : s.token = resp.sessionToken /\ s.createdAt < swept

\* C4: for every session created at time c, validateSession of its token at
\* a clock value later than c + 24h fails, whether or not its row is still in
\* the Sessions sheet.
C4_ExpiredTokenFails ==
    /\ \A s \in issued :
          now > s.createdAt + SESSION_TIMEOUT =>
              handleValidateSession(sessions, s.token, now).success = FALSE
    /\ \A s \in issued :
          (IsValidate /\ req.sessionToken = s.token /\ now > s.createdAt + SESSION_TIMEOUT)
              => resp.success = FALSE

\* validateSession has just refused a token whose row is still in the sheet,
\* at a clock value past its creation time plus 24h.
C4_Witness ==
    /\ IsValidate
    /\ resp.success = FALSE
    /\ HasToken(sessions, req.sessionToken)
    /\ \E s \in issued : s.token = req.sessionToken /\ now > s.createdAt + SESSION_TIMEOUT

\* C5: when logout(t) has just completed, no row of the Sessions sheet
\* carries t and validateSession(t) fails.
C5_LogoutInvalidates ==
    IsLogout =>
        /\ ~HasToken(sessions, req.sessionToken)
        /\ handleValidateSession(sessions, req.sessionToken, now).success = FALSE

\* logout has just deleted the row of a session that had not expired,
\* leaving other rows in the sheet.
C5_Witness ==
    /\ IsLogout
    /\ Len(removed) = 1
    /\ removed[1][1] = req.sessionToken
    /\ DateParse(removed[1][4]) >= now
    /\ Len(sessions) > 1

\* C6: logout of a token that has no row (also when the Sessions sheet does
\* not exist) answers success=true and leaves the sheet as it was; a second
\* logout(t) gives the same sheet and the same response as the first.
C6_LogoutIdempotent ==
    /\ [](\A t \in Tokens :
            LET once == handleLogout(sessions, t)
                twice == handleLogout(once.sessions, t)
            IN /\ once.resp.success = TRUE
               /\ twice.sessions = once.sessions
               /\ twice.resp = once.resp
               /\ ~HasToken(sessions, t) => once.sessions = sessions)
    /\ [][(req'.valid /\ req'.action = "logout" /\ ~HasToken(sessions, req'.sessionToken))
            => (sessions' = sessions /\ resp'.success = TRUE)]_vars

\* logout has just been answered for a token issued earlier whose row was
\* already gone, and rows of other sessions are in the sheet.
C6_Witness ==
    /\ IsLogout
    /\ req.sessionToken \in IssuedTokens
    /\ removed = << >>
    /\ resp.success = TRUE
    /\ Len(sessions) > 1

LoginSucceeds == req'.valid /\ req'.action = "login" /\ resp'.success = TRUE

Expiry(row) == DateParse(row[4])

\* The rows of after that are rows of before, in the order of after.
Kept(before, after) ==
    SelectSeq(DataRows(after), LAMBDA row : \E q \in 2..Len(before) : before[q] = row)

\* C7 as stated: after a successful login no row of the Sessions sheet has an
\* expiry earlier than the sweep's clock value, and every row that was
\* unexpired before the login is still there, identical, in the same order.
C7_SweepKeepsUnexpiredBefore ==
    [][LoginSucceeds =>
        /\ \A r \in 2..Len(sessions') : Expiry(sessions'[r]) >= swept'
        /\ Kept(sessions, sessions')
             = SelectSeq(DataRows(sessions), LAMBDA row : Expiry(row) >= now)]_vars

\* C7, amended: after a successful login no row of the Sessions sheet has an
\* expiry earlier than the sweep's clock value, and every row whose expiry is
\* not earlier than the sweep's clock value is still there, identical, in the
\* same order, followed by the one new row.
C7_SweepKeepsUnexpiredAtSweep ==
    [][LoginSucceeds =>
        /\ \A r \in 2..Len(sessions') : Expiry(sessions'[r]) >= swept'
        /\ Kept(sessions, sessions')
             = SelectSeq(DataRows(sessions), LAMBDA row : Expiry(row) >= swept')
        /\ Len(sessions') = Len(Kept(sessions, sessions')) + 2
        /\ sessions'[Len(sessions')][1] = resp'.sessionToken]_vars

\* A login has just succeeded whose sweep deleted an expired row and kept
\* the row of an older session that had not expired.
C7_Witness ==
    /\ IsLogin
    /\ resp.success = TRUE
    /\ removed # << >>
    /\ \A k \in 1..Len(removed) : Expiry(removed[k]) < swept
    /\ Len(sessions) >= 3

\* C8: every POST is answered with an envelope holding a boolean success and
\* a string message; an action other than login, logout and validateSession
\* is answered success=false and changes neither the Users nor the Sessions
\* sheet.
C8_UniformEnvelope ==
    /\ [](req # NoRequest =>
            /\ {"success", "message"} \subseteq DOMAIN resp
            /\ resp.success \in BOOLEAN
            /\ resp.message \in STRING)
    /\ [][(req' # NoRequest /\ req'.valid
            /\ req'.action \notin {"login", "logout", "validateSession"})
            => (resp'.success = FALSE /\ users' = users /\ sessions' = sessions)]_vars

\* A request with an unknown action has just been refused while the Sessions
\* sheet holds a session.
C8_Witness ==
    /\ req.valid
    /\ req.action = "register"
    /\ resp.success = FALSE
    /\ Len(sessions) > 1

\* C9: validateSession of a token whose row is present and unexpired returns
\* exactly the user that login returned and stored in that row, whatever the
\* Users sheet holds by now.
C9_ValidateReturnsSnapshot ==
    /\ \A s \in issued :
          (/\ HasToken(sessions, s.token)
           /\ ~isSessionExpired(getSession(sessions, s.token), now))
          => /\ JSONparse(getSession(sessions, s.token).userData) = s.user
             /\ handleValidateSession(sessions, s.token, now)
                  = [success |-> TRUE, message |-> "Session valid", user |-> s.user]
    /\ \A s \in issued :
          (IsValidate /\ req.sessionToken = s.token /\ resp.success = TRUE)
              => resp.user = s.user

\* validateSession has just returned a user whose id the Users sheet no
\* longer holds in the row of that username.
C9_Witness ==
    /\ IsValidate
    /\ resp.success = TRUE
    /\ \E r \in 2..Len(users) :
          users[r][1] = resp.user.username /\ users[r][5] # resp.user.id
    /\ ~ \E r \in 2..Len(users) : users[r][5] = resp.user.id

\* C10: every session row has expiresAt = createdAt + 24h; no step changes
\* the creation time or expiry of a row that stays in the sheet; and
\* validateSession, successful or not, leaves the Sessions sheet unchanged.
C10_FixedTtl ==
    /\ [](\A r \in 2..Len(sessions) :
            DateParse(sessions[r][4]) = DateParse(sessions[r][3]) + SESSION_TIMEOUT)
    /\ [][\A r \in 2..Len(sessions) : \A q \in 2..Len(sessions') :
            sessions'[q][1] = sessions[r][1] => sessions'[q] = sessions[r]]_vars
    /\ [][(req'.valid /\ req'.action = "validateSession") => sessions' = sessions]_vars

\* validateSession has just succeeded for a session created earlier than the
\* current clock value, and its row still expires 24h after its creation.
C10_Witness ==
    /\ IsValidate
    /\ resp.success = TRUE
    /\ \E s \in issued :
          /\ s.token = req.sessionToken
          /\ s.createdAt < now
          /\ DateParse(getSession(sessions, s.token).expiresAt) = s.createdAt + SESSION_TIMEOUT

----------------------------------------------------------------------------
(* Removal and creation of session rows *)

\* The data rows of a sheet, as a set.
Rows(sheet) == IF sheet = NoSheet THEN {} ELSE {sheet[r] : r \in 2..Len(sheet)}

\* C11: in sequential execution a session row present before a step is absent
\* after it only if the step was a logout naming that row's token, or a
\* successful login whose sweep ran at a clock value past the row's expiry;
\* a row appears only in a successful login, and such a login adds exactly
\* one row, the one holding the token it returns.
C11_OnlyLogoutAndExpiryRemove ==
    [][/\ \A row \in Rows(sessions) \ Rows(sessions') :
            \/ req'.valid /\ req'.action = "logout" /\ req'.sessionToken = row[1]
            \/ LoginSucceeds /\ Expiry(row) < swept'
       /\ Rows(sessions') \ Rows(sessions) # {} => LoginSucceeds
       /\ LoginSucceeds =>
            /\ Cardinality(Rows(sessions') \ Rows(sessions)) = 1
            /\ \A row \in Rows(sessions') \ Rows(sessions) : row[1] = resp'.sessionToken
            /\ Len(DataRows(sessions'))
                 = Len(DataRows(sessions)) - Len(RemovedRows(sessions, sessions')) + 1
       /\ ~LoginSucceeds => Len(DataRows(sessions')) <= Len(DataRows(sessions))]_vars

\* A logout has just removed the row of its token while the row of another
\* session, already past its expiry, is still in the sheet.
C11_Witness ==
    /\ IsLogout
    /\ Len(removed) = 1
    /\ removed[1][1] = req.sessionToken
    /\ \E r \in 2..Len(sessions) : Expiry(sessions[r]) < now

----------------------------------------------------------------------------
(* Several matching user rows *)

\* C12: when several user rows match the supplied username and password, the
\* login succeeds as the first of them in table order: the returned user and
\* the snapshot stored with the session are built from that row, and exactly
\* one session row is added, holding the returned token.
C12_FirstMatchWins ==
    [][(LoginSucceeds
          /\ Cardinality(MatchingRows(users', req'.username, req'.password)) >= 2) =>
        LET matching == MatchingRows(users', req'.username, req'.password)
            r == CHOOSE m \in matching : \A q \in matching : m <= q
            expected == [id |-> IF users'[r][5] # "" THEN users'[r][5]
                                ELSE getUuid(nextUuid' - 1),
                         username |-> users'[r][1],
                         email |-> users'[r][3],
                         role |-> users'[r][4],
                         chapterId |-> IF users'[r][6] # "" THEN users'[r][6] ELSE Null]
            added == Rows(sessions') \ Rows(sessions)
        IN /\ resp'.user = expected
           /\ Cardinality(added) = 1
           /\ \A row \in added :
                /\ row[1] = resp'.sessionToken
                /\ JSONparse(row[2]) = expected
           /\ Len(DataRows(sessions'))
                = Len(DataRows(sessions)) - Len(RemovedRows(sessions, sessions')) + 1]_vars

\* A login has just succeeded for a username and password that two user rows
\* carry, and the two rows differ in their stored id.
C12_Witness ==
    /\ IsLogin
    /\ resp.success = TRUE
    /\ \E p, q \in MatchingRows(users, req.username, req.password) :
            p < q /\ users[p][5] # users[q][5] /\ resp.user.id = users[p][5]

----------------------------------------------------------------------------
(* Monotone validity *)

\* Whether validateSession(sessionToken) would succeed in the current state.
Valid(sessionToken) == handleValidateSession(sessions, sessionToken, now).success = TRUE

\* C17: the clock never goes back, and a token issued by an earlier login
\* that validateSession refuses in one state is refused in the next state
\* too, whatever request was handled in between; the response of a
\* validateSession request is that verdict.  Hence once validateSession(t)
\* has failed, every later validateSession(t) fails.
C17_ValidityMonotone ==
    [][/\ now' >= now
       /\ \A s \in issued : ~Valid(s.token) => ~Valid(s.token)'
       /\ (req'.valid /\ req'.action = "validateSession")
            => resp'.success
                 = handleValidateSession(sessions', req'.sessionToken, now').success]_vars

\* validateSession has just refused a token that a login issued less than 24
\* hours ago and a logout removed, after a later login created another
\* session.
C17_Witness ==
    /\ IsValidate
    /\ resp.success = FALSE
    /\ \E s \in issued :
          /\ s.token = req.sessionToken
          /\ ~HasToken(sessions, s.token)
          /\ now <= s.createdAt + SESSION_TIMEOUT
          /\ \E r \in 2..Len(sessions) : DateParse(sessions[r][3]) >= s.createdAt

----------------------------------------------------------------------------
(* Failed logins *)

\* C18: a login refused for bad credentials leaves the Sessions sheet as it
\* was: no row is appended and no sweep runs, so the rows of expired sessions
\* stay until a successful login or a logout of their token removes them.
C18_FailedLoginKeepsSessions ==
    [][/\ (req'.valid /\ req'.action = "login" /\ resp'.success = FALSE) =>
            /\ sessions' = sessions
            /\ swept' = NoSweep
       /\ \A k \in 1..Len(removed') :
            Expiry(removed'[k]) < now =>
                \/ LoginSucceeds
                \/ req'.valid /\ req'.action = "logout" /\ req'.sessionToken = removed'[k][1]]_vars

\* A login has just been refused while the row of a session past its expiry
\* is in the sheet.
C18_Witness ==
    /\ IsLogin
    /\ resp.success = FALSE
    /\ swept = NoSweep
    /\ \E r \in 2..Len(sessions) : Expiry(sessions[r]) < now

----------------------------------------------------------------------------
(* Expiry as seen by validation and by the sweep *)

\* The clock values around the expiry of a row, and the current one.
ClocksAround(row) == {Expiry(row) - 1, Expiry(row), Expiry(row) + 1, now}

\* C20: for every row of the Sessions sheet and every clock value, a sweep at
\* that value deletes the row exactly when validateSession of the row's token
\* at that value fails; at the value equal to the row's expiry the token
\* still validates and the row is not swept, one millisecond later it does
\* not validate and is swept.
C20_SweepAgreesWithValidation ==
    \A r \in 2..Len(sessions) :
        LET row == sessions[r]
        IN /\ \A c \in ClocksAround(row) :
                 ~HasToken(cleanupExpiredSessions(sessions, c), row[1])
                    <=> handleValidateSession(sessions, row[1], c).success = FALSE
           /\ HasToken(cleanupExpiredSessions(sessions, Expiry(row)), row[1])
           /\ handleValidateSession(sessions, row[1], Expiry(row)).success = TRUE
           /\ ~HasToken(cleanupExpiredSessions(sessions, Expiry(row) + 1), row[1])
           /\ handleValidateSession(sessions, row[1], Expiry(row) + 1).success = FALSE

\* A login has just succeeded whose sweep ran at exactly the expiry of an
\* older session: the sweep left that row in the sheet and its token still
\* validates.
C20_Witness ==
    /\ IsLogin
    /\ resp.success = TRUE
    /\ swept = now
    /\ \E r \in 2..Len(sessions) :
          /\ Expiry(sessions[r]) = swept
          /\ Valid(sessions[r][1])

----------------------------------------------------------------------------
(* Storage faults *)

\* The prefix each handler's catch block puts before the error text.
CatchPrefix(action) ==
    IF action = "login" THEN "Login error: "
    ELSE IF action = "logout" THEN "Logout error: "
    ELSE "Validation error: "

\* C14: when a storage call throws during a login, logout or validateSession
\* request, the request is answered with an envelope of success=false whose
\* message carries the text of the error after the handler's prefix, so no
\* exception leaves doPost; and the handler is not run again: a logout or a
\* validation that threw has changed no sheet, a login that threw has added
\* at most one session row, and none if it threw before it generated a token.
C14_FaultSurfaced ==
    [][fault'.point # "none" =>
        /\ DOMAIN resp' = {"success", "message"}
        /\ resp'.success = FALSE
        /\ fault'.error \in StorageErrors
        /\ resp'.message = CatchPrefix(req'.action) \o fault'.error
        /\ req'.action \in {"logout", "validateSession"} =>
                users' = users /\ sessions' = sessions
        /\ req'.action = "login" =>
                /\ Cardinality(Rows(sessions') \ Rows(sessions)) <= 1
                /\ fault'.token = "" => Rows(sessions') \subseteq Rows(sessions)
                /\ issued' = issued]_vars

\* A login has just been answered with the error of the appendRow call of
\* storeSession, which threw while other sessions were in the sheet.
C14_Witness ==
    /\ IsLogin
    /\ fault.point = "appendRow:166"
    /\ resp.success = FALSE
    /\ Len(sessions) >= 2
    /\ ~HasToken(sessions, fault.token)

\* C19 as stated: whenever a login is answered success=false, a storage fault
\* inside storeSession or its sweep included, no row of the Sessions sheet
\* carries the token that login generated.
C19_LoginAllOrNothing ==
    (IsLogin /\ resp.success = FALSE) =>
        \A r \in 1..Len(sessions) : fault.token = "" \/ sessions[r][1] # fault.token

----------------------------------------------------------------------------
(* Overlapping requests *)

\* C13: requests are not atomic with respect to each other.  A deleteRow call
\* acts on the position found in the request's snapshot of the Sessions
\* sheet: it removes a row other than the one matched there, or none at all,
\* only when another request has changed the sheet between the read and the
\* call; with two overlapping requests that case is reached, and an unexpired
\* session that the logout did not name is removed while the named row stays.
C13_WrongRowOnlyAfterOverlap ==
    (conc.last.by # "none" /\ conc.last.actual # conc.last.target) => conc.last.stale

\* A logout has just deleted the unexpired row of a session it did not name,
\* and the row of the token it named is still in the sheet.
C13_Witness ==
    /\ conc.last.by = "logout"
    /\ conc.last.actual # NoRow
    /\ conc.last.actual # conc.last.target
    /\ conc.last.actual[1] # req.sessionToken
    /\ Expiry(conc.last.actual) >= now
    /\ conc.last.target[1] = req.sessionToken
    /\ conc.last.target \in Rows(sessions)

----------------------------------------------------------------------------
(* The chapter editor *)

\* The step ran handleSave up to its await.
SaveStarts == ui' # ui /\ ui'.calls # << >> /\ ui'.calls[1] = "handleSave"

\* The step ran handleSave from its await on.
SaveResumes == ui' # ui /\ ui'.calls # << >> /\ ui'.calls[1] = "setIsSaving(false)"

\* C15: a click on Save sets isSaving to true; Save is disabled while
\* isSaving is true, so a save starts only when isSaving is false; neither
\* half of a save changes chapterData, calls anything but setIsSaving,
\* setTimeout and alert, or touches the spreadsheet; and, the timer being
\* fired by the browser, isSaving always returns to false.
C15_SaveIsLocalAndEnds ==
    /\ [][/\ SaveStarts =>
                /\ ~ui.isSaving
                /\ ui'.isSaving
                /\ ui'.timer
          /\ (SaveStarts \/ SaveResumes) =>
                /\ ui'.chapterData = ui.chapterData
                /\ ui'.auth = ui.auth
                /\ \A k \in 1..Len(ui'.calls) :
                      ui'.calls[k] \in {"handleSave", "setIsSaving(true)", "setTimeout",
                                        "setIsSaving(false)", "alert"}
                /\ UNCHANGED <<users, sessions, req, resp>>
          /\ (SaveResumes /\ ui.timer /\ ~ui'.timer) => ~ui'.isSaving]_vars
    /\ [](ui.isSaving => ui.mounted /\ ui.timer)
    /\ (ui.isSaving ~> ~ui.isSaving)

\* The delay of a save has just elapsed in the mounted editor: isSaving is
\* false again and the form holds what the user typed while it ran.
C15_Witness ==
    /\ ui.mounted
    /\ ui.calls = editorHandleSaveResumed
    /\ ~ui.isSaving
    /\ ~ui.timer
    /\ ui.chapterData # InitialChapterData

\* C16: a click on Logout calls logout() and then onBack(), in that order,
\* exactly when the user accepts the confirm dialog; when the user declines,
\* neither is called and the signed-in user, the form, isSaving and the
\* editor stay as they were.
C16_LogoutOnlyWhenConfirmed ==
    [][/\ (ui' # ui /\ ui'.calls # << >> /\ ui'.calls[1] = "confirm") =>
            IF ui'.confirmed
            THEN ui'.calls = << "confirm", "logout", "onBack" >>
            ELSE /\ ui'.calls = << "confirm" >>
                 /\ ui'.auth = ui.auth
                 /\ ui'.chapterData = ui.chapterData
                 /\ ui'.isSaving = ui.isSaving
                 /\ ui'.timer = ui.timer
                 /\ ui'.mounted = ui.mounted
       /\ (\E k \in 1..Len(ui'.calls) : ui'.calls[k] = "logout") =>
            /\ ui'.calls[1] = "confirm"
            /\ ui'.confirmed
       /\ (ui.auth = "in" /\ ui'.auth = "out") =>
            /\ ui'.calls[1] = "confirm"
            /\ ui'.confirmed]_vars

\* The user has just accepted the logout dialog while a save was running:
\* logout() and onBack() were called, the user is signed out and the editor
\* is gone.
C16_Witness ==
    /\ ui.calls = << "confirm", "logout", "onBack" >>
    /\ ui.confirmed
    /\ ui.auth = "out"
    /\ ~ui.mounted
    /\ ui.orphans > 0

====
